---- MODULE Spec2Model ----
(***************************************************************************)
(* Verification model of the 2D affine calibration tool                    *)
(* (calibration_tool/model.py, controller.py, analysis.py).                *)
(*                                                                         *)
(* CalibrationModel's fields are the state; every method of                *)
(* CalibrationModel and every handler of Controller is one action.         *)
(***************************************************************************)
EXTENDS Integers, Sequences, FiniteSets, TLC

(***************************************************************************)
(* Program constants                                                       *)
(***************************************************************************)
\* model.py:68 and model.py:86: the cap of each landmark list.
MaxLandmarks == 12
\* analysis.py:50 and controller.py:201,214: pairs an affine fit needs.
MinPairs == 3
\* controller.py:146: the canvas draws the picture with a 25px padding.
CanvasPadding == 25
\* image.py:15: the default tolerance of remove_background.
DefaultThreshold == 10

(***************************************************************************)
(* Bounds of the model                                                     *)
(***************************************************************************)
\* SpecRegistry explores call sequences that build at most this many
\* complete pairs (either list alone may still grow to the cap and beyond).
MaxPairs == 2
\* Only the first MaxVaried clicks on a canvas range over every event of
\* Events; later clicks land on the first event.
MaxVaried == 1
\* SpecEstimator calls the estimator with arrays of at most this length.
MaxArray == 3
\* Spec explores sessions with at most this many landmarks on each canvas.
MaxClicks == 3
\* Square roots are held to 1 / Precision.
Precision == 1000
\* SpecImage calls the functions of image.py on images of at most this
\* many pixels, ...
MaxPixels == 6
\* ... auto_crop with borders up to this, ...
MaxBorder == 3
\* ... and pad_image_to_center with targets of at most this many rows and
\* columns.
MaxTarget == 3

None == "None"

\* The empty dict {} of model.py:47.
EmptyDict == <<>>

\* Mouse events (canvas coordinates) the user can produce.
Events == {<<25, 25>>, <<26, 25>>}
FirstEvent == <<25, 25>>

Canvases == {"image", "csv"}

Min(a, b) == IF a <= b THEN a ELSE b

Front(s) == SubSeq(s, 1, Len(s) - 1)

Last(s) == s[Len(s)]

VARIABLES
    landmarks_image,      \* model.landmarks_image: list of (x, y)
    landmarks_csv,        \* model.landmarks_csv: list of (x, y)
    action_history,       \* model.action_history: list of "image" / "csv"
    calibration_results,  \* model.calibration_results: {} or a result dict
    image_path,           \* model.image_path
    image,                \* model.image: the processed image
    csv_path,             \* model.csv_path
    scaled_csv_data,      \* model.scaled_csv_data
    calibrate_button,     \* view.calibrate_button's state
    ret,                  \* the last call: its name, arguments, the value
                          \* it returned, the messages it showed and the
                          \* calls it made to the estimator
    insertions            \* history variable: the accepted additions that
                          \* have not been undone, in order of insertion

registry == <<landmarks_image, landmarks_csv, action_history>>

inputs == <<image_path, image, csv_path, scaled_csv_data>>

vars == <<landmarks_image, landmarks_csv, action_history, calibration_results,
          image_path, image, csv_path, scaled_csv_data, calibrate_button,
          ret, insertions>>

(***************************************************************************)
(* CalibrationModel (model.py)                                             *)
(***************************************************************************)

\* A clear that forgets the undo log.
clear_landmarks_keeps_history ==
    /\ landmarks_csv' = <<>>
    /\ landmarks_image' = <<>>
    /\ action_history' = action_history

\* CalibrationModel.clear_landmarks
clear_landmarks ==
    /\ landmarks_csv' = <<>>
    /\ landmarks_image' = <<>>
    /\ action_history' = <<>>

\* A cap test that is off by one.
add_image_landmark_off_by_one(point, added) ==
    IF Len(landmarks_image) <= MaxLandmarks
    THEN /\ landmarks_image' = Append(landmarks_image, point)
         /\ action_history' = Append(action_history, "image")
         /\ landmarks_csv' = landmarks_csv
         /\ added = TRUE
    ELSE /\ UNCHANGED registry
         /\ added = FALSE

\* CalibrationModel.add_image_landmark; added is the value returned.
add_image_landmark(point, added) ==
    IF Len(landmarks_image) < MaxLandmarks
    THEN /\ landmarks_image' = Append(landmarks_image, point)
         /\ action_history' = Append(action_history, "image")
         /\ landmarks_csv' = landmarks_csv
         /\ added = TRUE
    ELSE /\ UNCHANGED registry
         /\ added = FALSE

\* An add that forgets its entry of the undo log.
add_csv_landmark_unlogged(point, added) ==
    IF Len(landmarks_csv) < MaxLandmarks
    THEN /\ landmarks_csv' = Append(landmarks_csv, point)
         /\ action_history' = action_history
         /\ landmarks_image' = landmarks_image
         /\ added = TRUE
    ELSE /\ UNCHANGED registry
         /\ added = FALSE

\* CalibrationModel.add_csv_landmark; added is the value returned.
add_csv_landmark(point, added) ==
    IF Len(landmarks_csv) < MaxLandmarks
    THEN /\ landmarks_csv' = Append(landmarks_csv, point)
         /\ action_history' = Append(action_history, "csv")
         /\ landmarks_image' = landmarks_image
         /\ added = TRUE
    ELSE /\ UNCHANGED registry
         /\ added = FALSE

\* An undo that prefers the image list whatever the log says.
undo_last_landmark_per_set(raised) ==
    /\ raised = None
    /\ IF action_history = <<>>
       THEN UNCHANGED registry
       ELSE /\ action_history' = Front(action_history)
            /\ IF landmarks_image # <<>>
               THEN /\ landmarks_image' = Front(landmarks_image)
                    /\ landmarks_csv' = landmarks_csv
               ELSE /\ landmarks_csv' = Front(landmarks_csv)
                    /\ landmarks_image' = landmarks_image

\* An undo without the test for an empty log: list.pop() on an empty list
\* raises IndexError.
undo_last_landmark_unguarded(raised) ==
    IF action_history = <<>>
    THEN /\ raised = "IndexError"
         /\ UNCHANGED registry
    ELSE /\ raised = None
         /\ action_history' = Front(action_history)
         /\ IF Last(action_history) = "image"
            THEN /\ landmarks_image' = Front(landmarks_image)
                 /\ landmarks_csv' = landmarks_csv
            ELSE /\ landmarks_csv' = Front(landmarks_csv)
                 /\ landmarks_image' = landmarks_image

\* An undo that pops the log and leaves the lists.
undo_last_landmark_log_only(raised) ==
    /\ raised = None
    /\ IF action_history = <<>>
       THEN UNCHANGED registry
       ELSE /\ action_history' = Front(action_history)
            /\ landmarks_image' = landmarks_image
            /\ landmarks_csv' = landmarks_csv

\* CalibrationModel.undo_last_landmark; raised is the exception it ends
\* with (None: it returns normally).
undo_last_landmark(raised) ==
    /\ raised = None
    /\ IF action_history = <<>>
       THEN UNCHANGED registry
       ELSE LET last_action == Last(action_history) IN
            /\ action_history' = Front(action_history)
            /\ IF last_action = "image" /\ landmarks_image # <<>>
               THEN /\ landmarks_image' = Front(landmarks_image)
                    /\ landmarks_csv' = landmarks_csv
               ELSE IF last_action = "csv" /\ landmarks_csv # <<>>
               THEN /\ landmarks_csv' = Front(landmarks_csv)
                    /\ landmarks_image' = landmarks_image
               ELSE /\ landmarks_image' = landmarks_image
                    /\ landmarks_csv' = landmarks_csv

\* A pairing that forgets to truncate to the shorter list.
get_landmark_pairs_untruncated ==
    <<landmarks_image, landmarks_csv>>

\* CalibrationModel.get_landmark_pairs: (image_points, csv_points)
get_landmark_pairs ==
    LET num_pairs == Min(Len(landmarks_image), Len(landmarks_csv))
        image_points == SubSeq(landmarks_image, 1, num_pairs)
        csv_points == SubSeq(landmarks_csv, 1, num_pairs)
    IN  <<image_points, csv_points>>

\* CalibrationModel.__init__
ModelInit ==
    /\ csv_path = None
    /\ image_path = None
    /\ image = None
    /\ landmarks_csv = <<>>
    /\ landmarks_image = <<>>
    /\ action_history = <<>>
    /\ scaled_csv_data = None
    /\ calibration_results = EmptyDict

(***************************************************************************)
(* calculate_affine_transform (analysis.py), in exact arithmetic: numbers  *)
(* are fractions <<numerator, denominator>> in lowest terms, denominator   *)
(* positive.                                                               *)
(***************************************************************************)

Abs(a) == IF a < 0 THEN -a ELSE a

RECURSIVE Gcd(_, _)
Gcd(a, b) == IF b = 0 THEN a ELSE Gcd(b, a % b)

\* The fraction n / d (d # 0) in lowest terms.
Frac(n, d) ==
    LET g == Gcd(Abs(n), Abs(d))
        sign == IF d < 0 THEN -1 ELSE 1
    IN  <<sign * (n \div g), sign * (d \div g)>>

RECURSIVE Sum(_, _)
Sum(f, n) == IF n = 0 THEN 0 ELSE f[n] + Sum(f, n - 1)

Idx3 == 1..3

\* The product of two 3x3 integer matrices.
MatMul(M, N) ==
    [i \in Idx3 |-> [j \in Idx3 |->
        M[i][1] * N[1][j] + M[i][2] * N[2][j] + M[i][3] * N[3][j]]]

\* i + k, wrapped into 1..3.
Wrap(i, k) == ((i - 1 + k) % 3) + 1

\* The cofactor matrix of a 3x3 integer matrix.
Cofactors(M) ==
    [i \in Idx3 |-> [j \in Idx3 |->
        M[Wrap(i, 1)][Wrap(j, 1)] * M[Wrap(i, 2)][Wrap(j, 2)]
        - M[Wrap(i, 1)][Wrap(j, 2)] * M[Wrap(i, 2)][Wrap(j, 1)]]]

\* analysis.py:64: pad = hstack([x, ones]): row i of the padded array.
Pad(points) == [i \in 1..Len(points) |-> <<points[i][1], points[i][2], 1>>]

\* Transpose(A) * B for two arrays of n rows of 3 numbers.
Gram(A, B) ==
    [i \in Idx3 |-> [j \in Idx3 |->
        Sum([r \in 1..Len(A) |-> A[r][i] * B[r][j]], Len(A))]]

\* np.linalg.lstsq(A, b, rcond=None)[0] (analysis.py:73): the least-squares
\* solution of minimum norm, x = pinv(A'A) A'b, as a numerator matrix over
\* one denominator.  With G = A'A of rank 3 pinv(G) = adj(G) / det(G); of
\* rank 2, G((c1^2 - c2) I - c1 G) / c2^2; of rank 1, G / c1^2, c1 the
\* trace of G and c2 the sum of its principal 2x2 minors.
Lstsq(A, b) ==
    LET G == Gram(A, A)
        R == Gram(A, b)
        C == Cofactors(G)
        det == G[1][1] * C[1][1] + G[1][2] * C[1][2] + G[1][3] * C[1][3]
        c1 == G[1][1] + G[2][2] + G[3][3]
        c2 == C[1][1] + C[2][2] + C[3][3]
        K == [i \in Idx3 |-> [j \in Idx3 |->
                 (IF i = j THEN c1 * c1 - c2 ELSE 0) - c1 * G[i][j]]]
        pinv == IF det # 0 THEN [num |-> [i \in Idx3 |-> [j \in Idx3 |-> C[j][i]]],
                                 den |-> det]
                ELSE IF c2 # 0 THEN [num |-> MatMul(G, K), den |-> c2 * c2]
                ELSE [num |-> G, den |-> c1 * c1]
    IN  [num |-> MatMul(pinv.num, R), den |-> pinv.den]

\* Arithmetic and order of fractions.
FAdd(p, q) == Frac(p[1] * q[2] + q[1] * p[2], p[2] * q[2])

FSub(p, q) == Frac(p[1] * q[2] - q[1] * p[2], p[2] * q[2])

FMul(p, q) == Frac(p[1] * q[1], p[2] * q[2])

FLeq(p, q) == p[1] * q[2] <= q[1] * p[2]

RECURSIVE ISqrtIn(_, _, _)
ISqrtIn(n, lo, hi) ==
    IF lo = hi THEN lo
    ELSE LET mid == (lo + hi + 1) \div 2
         IN  IF mid * mid <= n THEN ISqrtIn(n, mid, hi)
             ELSE ISqrtIn(n, lo, mid - 1)

\* The integer part of the square root of n >= 0.
ISqrt(n) == ISqrtIn(n, 0, Min(n, 46340))

\* The square root of the fraction q >= 0 as the code holds it, a number of
\* finite precision: cut to a multiple of 1 / Precision.
Sqrt(q) == Frac(ISqrt((q[1] * Precision * Precision) \div q[2]), Precision)

\* analysis.py:64-73: x of np.linalg.lstsq(pad(image_points),
\* pad(csv_points)), 3 rows of 3 fractions.
Solve(image_points, csv_points) ==
    LET x == Lstsq(Pad(image_points), Pad(csv_points))
    IN  [i \in Idx3 |-> [j \in Idx3 |-> Frac(x.num[i][j], x.den)]]

\* A matrix that is x itself, not its transpose.
affine_matrix_untransposed(x) ==
    <<x[1], x[2], <<Frac(0, 1), Frac(0, 1), Frac(1, 1)>> >>

\* A matrix that keeps the third row the solver found.
affine_matrix_solver_row(x) ==
    [i \in Idx3 |-> [j \in Idx3 |-> x[j][i]]]

\* analysis.py:76-81: rows 0 and 1 of x.T, then [0, 0, 1].
affine_matrix_3x3(x) ==
    <<[j \in Idx3 |-> x[j][1]],
      [j \in Idx3 |-> x[j][2]],
      <<Frac(0, 1), Frac(0, 1), Frac(1, 1)>> >>

\* analysis.py:86: np.dot(A, x)[:, 0:2], A = pad(image_points).
transformed_points(x, image_points) ==
    [i \in 1..Len(image_points) |->
        [c \in 1..2 |->
            FAdd(FAdd(FMul(Frac(image_points[i][1], 1), x[1][c]),
                      FMul(Frac(image_points[i][2], 1), x[2][c])),
                 x[3][c])]]

\* The distances of the transformed points to the points they came from.
squared_distances_to_source(x, image_points, csv_points) ==
    LET t == transformed_points(x, image_points)
        d(i, c) == FSub(t[i][c], Frac(image_points[i][c], 1))
    IN  [i \in 1..Len(image_points) |->
            FAdd(FMul(d(i, 1), d(i, 1)), FMul(d(i, 2), d(i, 2)))]

\* analysis.py:91: the squares of the norms of transformed_points -
\* csv_points, row by row.
squared_distances(x, image_points, csv_points) ==
    LET t == transformed_points(x, image_points)
        d(i, c) == FSub(t[i][c], Frac(csv_points[i][c], 1))
    IN  [i \in 1..Len(image_points) |->
            FAdd(FMul(d(i, 1), d(i, 1)), FMul(d(i, 2), d(i, 2)))]

\* analysis.py:91: errors = np.linalg.norm(..., axis=1).
fit_errors(x, image_points, csv_points) ==
    LET q == squared_distances(x, image_points, csv_points)
    IN  [i \in 1..Len(q) |-> Sqrt(q[i])]

\* np.min, np.max and np.mean of a non-empty list (analysis.py:92-94).
Least(errors) ==
    CHOOSE e \in {errors[i] : i \in 1..Len(errors)} :
        \A i \in 1..Len(errors) : FLeq(e, errors[i])

Greatest(errors) ==
    CHOOSE e \in {errors[i] : i \in 1..Len(errors)} :
        \A i \in 1..Len(errors) : FLeq(errors[i], e)

RECURSIVE FSum(_, _)
FSum(errors, n) ==
    IF n = 0 THEN Frac(0, 1) ELSE FAdd(errors[n], FSum(errors, n - 1))

Mean(errors) == FMul(FSum(errors, Len(errors)), Frac(1, Len(errors)))

InsufficientPoints ==
    [raised |-> "ValueError",
     message |-> "At least 3 landmark pairs are required for affine transformation."]

\* analysis.py:56-109: the result dict of a fit.
FitResult(image_points, csv_points) ==
    LET x == Solve(image_points, csv_points)
        errors == fit_errors(x, image_points, csv_points)
    IN  [affine_matrix |-> affine_matrix_3x3(x),
         squared_errors |-> squared_distances(x, image_points, csv_points),
         errors |-> errors,
         min_error |-> Least(errors),
         max_error |-> Greatest(errors),
         mean_error |-> Mean(errors)]

\* A length test that lets two pairs through.
calculate_affine_transform_two_pairs(image_points, csv_points) ==
    IF Len(image_points) < MinPairs - 1
    THEN InsufficientPoints
    ELSE [raised |-> None, result |-> FitResult(image_points, csv_points)]

\* calculate_affine_transform(image_points, csv_points): the exception it
\* raises, or the result dict it returns.
calculate_affine_transform(image_points, csv_points) ==
    IF Len(image_points) < MinPairs
    THEN InsufficientPoints
    ELSE [raised |-> None, result |-> FitResult(image_points, csv_points)]

(***************************************************************************)
(* image.py: an image is its shape <<rows, columns>> and its pixels, a     *)
(* function from <<row, column>>, counted from 0, to a colour of 3 or 4    *)
(* channels.                                                               *)
(***************************************************************************)

Pixels(shape) == (0..(shape[1] - 1)) \X (0..(shape[2] - 1))

Array(shape, px) == [shape |-> shape, px |-> px]

\* image.py:43-44: the colour without its alpha channel.
Rgb(colour) == SubSeq(colour, 1, 3)

\* image.py:50: the square of np.linalg.norm(np.abs(colour - value)).
SquaredNorm(colour, value) ==
    (colour[1] - value[1]) * (colour[1] - value[1])
    + (colour[2] - value[2]) * (colour[2] - value[2])
    + (colour[3] - value[3]) * (colour[3] - value[3])

\* A footprint of all ones: the 8 pixels around p.
Neighbours8(p) ==
    {<<p[1] + dr, p[2] + dc>> : dr \in {-1, 0, 1}, dc \in {-1, 0, 1}}
    \ {p}

\* image.py:55-57: the footprint, column 1 and row 1 of a 3x3 array: the
\* pixels above, below, left and right of p.
Neighbours4(p) ==
    {<<p[1] - 1, p[2]>>, <<p[1] + 1, p[2]>>,
     <<p[1], p[2] - 1>>, <<p[1], p[2] + 1>>}

\* skimage.segmentation.flood_fill(norm, init_pos, 999, footprint,
\* tolerance) (image.py:61-63): the pixels it fills, from the seed outwards
\* through the footprint over the pixels whose value is within tolerance
\* of the seed's.
RECURSIVE Flood(_, _, _)
Flood(fillable, region, frontier) ==
    IF frontier = {}
    THEN region
    ELSE LET reached == (UNION {Neighbours4(p) : p \in frontier}
                         \cap fillable) \ region
         IN  Flood(fillable, region \cup reached, reached)

\* image.py:15-79: the pair (new_img, mask) as a record.
remove_background(img, threshold, init_pos, mode) ==
    LET value == Rgb(img.px[init_pos])
        norm2(p) == SquaredNorm(Rgb(img.px[p]), value)
        filled == Flood({p \in Pixels(img.shape) :
                             norm2(p) <= threshold * threshold},
                        {init_pos}, {init_pos})
        mask == IF mode = "fill"
                THEN [p \in Pixels(img.shape) |->
                         IF p \in filled THEN 0 ELSE 255]
                ELSE [p \in Pixels(img.shape) |->
                         IF norm2(p) < threshold * threshold
                         THEN 0 ELSE 255]
    IN  [new_img |-> Array(img.shape,
                           [p \in Pixels(img.shape) |->
                               Rgb(img.px[p]) \o <<mask[p]>>]),
         mask |-> mask]

\* The indices a slice start:stop selects on an axis of length n.
Slice(start, stop, n) ==
    LET from == IF start < 0 THEN (IF start + n < 0 THEN 0 ELSE start + n)
                ELSE start
        to == IF stop > n THEN n ELSE stop
    IN  {i \in 0..(n - 1) : from <= i /\ i < to}

SetMin(S) == CHOOSE a \in S : \A b \in S : a <= b

SetMax(S) == CHOOSE a \in S : \A b \in S : b <= a

\* array[rows, columns, :] for two sets of consecutive indices.
Cropped(array, rows, columns) ==
    IF rows = {} \/ columns = {}
    THEN Array(<<Cardinality(rows), Cardinality(columns)>>, <<>>)
    ELSE Array(<<Cardinality(rows), Cardinality(columns)>>,
               [p \in Pixels(<<Cardinality(rows), Cardinality(columns)>>) |->
                   array.px[<<SetMin(rows) + p[1], SetMin(columns) + p[2]>>]])

\* image.py:100-109: the image inside a frame of the colour of its corner.
bordered(img, borders) ==
    LET value == img.px[<<0, 0>>]
        new_shape == <<img.shape[1] + borders, img.shape[2] + borders>>
        inside(p) == /\ p[1] - borders \div 2 \in 0..(img.shape[1] - 1)
                     /\ p[2] - borders \div 2 \in 0..(img.shape[2] - 1)
    IN  Array(new_shape,
              [p \in Pixels(new_shape) |->
                  IF inside(p)
                  THEN img.px[<<p[1] - borders \div 2, p[2] - borders \div 2>>]
                  ELSE value])

\* A crop that widens the box by the whole border.
auto_crop_whole_border(img, borders) ==
    LET new_img == bordered(img, borders)
        mask == remove_background(new_img, DefaultThreshold, <<0, 0>>,
                                  "fill").mask
        x == {p[1] : p \in {q \in Pixels(new_img.shape) : mask[q] = 255}}
        y == {p[2] : p \in {q \in Pixels(new_img.shape) : mask[q] = 255}}
    IN  IF x = {}
        THEN [raised |-> "ValueError",
              message |-> "zero-size array to reduction operation minimum"]
        ELSE [raised |-> None,
              value |-> Cropped(new_img,
                                Slice(SetMin(x) - borders,
                                      SetMax(x) + borders + 1,
                                      new_img.shape[1]),
                                Slice(SetMin(y) - borders,
                                      SetMax(y) + borders + 1,
                                      new_img.shape[2]))]

\* A crop that returns the framed image when it finds no foreground.
auto_crop_no_foreground(img, borders) ==
    LET new_img == bordered(img, borders)
        mask == remove_background(new_img, DefaultThreshold, <<0, 0>>,
                                  "fill").mask
        x == {p[1] : p \in {q \in Pixels(new_img.shape) : mask[q] = 255}}
        y == {p[2] : p \in {q \in Pixels(new_img.shape) : mask[q] = 255}}
    IN  IF x = {}
        THEN [raised |-> None, value |-> new_img]
        ELSE [raised |-> None,
              value |-> Cropped(new_img,
                                Slice(SetMin(x) - borders \div 2,
                                      SetMax(x) + borders \div 2 + 1,
                                      new_img.shape[1]),
                                Slice(SetMin(y) - borders \div 2,
                                      SetMax(y) + borders \div 2 + 1,
                                      new_img.shape[2]))]

\* image.py:82-125: the exception auto_crop raises (np.min of an empty
\* array, image.py:116, raises ValueError) or the array it returns.
auto_crop(img, borders) ==
    LET new_img == bordered(img, borders)
        mask == remove_background(new_img, DefaultThreshold, <<0, 0>>,
                                  "fill").mask
        x == {p[1] : p \in {q \in Pixels(new_img.shape) : mask[q] = 255}}
        y == {p[2] : p \in {q \in Pixels(new_img.shape) : mask[q] = 255}}
    IN  IF x = {}
        THEN [raised |-> "ValueError",
              message |-> "zero-size array to reduction operation minimum"]
        ELSE [raised |-> None,
              value |-> Cropped(new_img,
                                Slice(SetMin(x) - borders \div 2,
                                      SetMax(x) + borders \div 2 + 1,
                                      new_img.shape[1]),
                                Slice(SetMin(y) - borders \div 2,
                                      SetMax(y) + borders \div 2 + 1,
                                      new_img.shape[2]))]

\* image.py:266: the fill colour of pad_image_to_center.
Black == <<0, 0, 0>>

\* image.py:246-280: the exception pad_image_to_center raises or the array
\* it returns.  np.full (image.py:267-269) broadcasts the 3 numbers of
\* color over the last axis and raises ValueError when that axis is not of
\* length 3.
pad_image_to_center(img, new_shape) ==
    LET channels == Len(img.px[<<0, 0>>])
        x_center == (new_shape[2] - img.shape[2]) \div 2
        y_center == (new_shape[1] - img.shape[1]) \div 2
        inside(p) == /\ p[1] - y_center \in 0..(img.shape[1] - 1)
                     /\ p[2] - x_center \in 0..(img.shape[2] - 1)
    IN  IF img.shape[2] > new_shape[2] \/ img.shape[1] > new_shape[1]
        THEN [raised |-> "ValueError",
              message |-> "New shape must be larger than old shape!"]
        ELSE IF channels # Len(Black)
        THEN [raised |-> "ValueError",
              message |-> "could not broadcast input array"]
        ELSE [raised |-> None,
              value |-> Array(new_shape,
                              [p \in Pixels(new_shape) |->
                                  IF inside(p)
                                  THEN img.px[<<p[1] - y_center,
                                                p[2] - x_center>>]
                                  ELSE Black])]

(***************************************************************************)
(* What a call leaves behind for the properties to read                    *)
(***************************************************************************)

Call(op, args, value, shown, estimator) ==
    [op |-> op, args |-> args, value |-> value, shown |-> shown,
     estimator |-> estimator]

\* The history variable after an add that returned added.
Inserted(set_id, point, added) ==
    IF added
    THEN Append(insertions, [set |-> set_id, point |-> point])
    ELSE insertions

\* The history variable after an undo: the latest insertion is gone.
Removed == IF insertions = <<>> THEN <<>> ELSE Front(insertions)

\* The points of the insertions into one set, in order of insertion.
RECURSIVE PointsOf(_, _)
PointsOf(log, set_id) ==
    IF log = <<>>
    THEN <<>>
    ELSE LET rest == PointsOf(Front(log), set_id) IN
         IF Last(log).set = set_id
         THEN Append(rest, Last(log).point)
         ELSE rest

(***************************************************************************)
(* Inputs                                                                  *)
(***************************************************************************)

\* controller.py:146: the landmark a click at event records.
ClickPoint(event) == <<event[1] - CanvasPadding, event[2] - CanvasPadding>>

\* The events offered for the next click on a canvas holding n landmarks.
ClickSet(n) == IF n < MaxVaried THEN Events ELSE {FirstEvent}

\* The landmarks the events stand for: the points callers add.
PointSet(n) == {ClickPoint(e) : e \in ClickSet(n)}

\* An add to a set is explored when the set is full (the add is rejected)
\* or when it leaves at most max_pairs complete pairs.
WithinPairs(set_id, max_pairs) ==
    LET n_image == Len(landmarks_image)
        n_csv == Len(landmarks_csv)
    IN  IF set_id = "image"
        THEN n_image = MaxLandmarks \/ Min(n_image + 1, n_csv) <= max_pairs
        ELSE n_csv = MaxLandmarks \/ Min(n_image, n_csv + 1) <= max_pairs

(***************************************************************************)
(* SpecRegistry: CalibrationModel on its own, its methods called in any    *)
(* order, as tests/test_model.py calls them                                *)
(***************************************************************************)

app == <<calibration_results, image_path, image, csv_path, scaled_csv_data,
         calibrate_button>>

Init ==
    /\ ModelInit
    /\ calibrate_button = "disabled"
    /\ ret = Call("__init__", <<>>, None, <<>>, <<>>)
    /\ insertions = <<>>

CallAddImage ==
    /\ WithinPairs("image", MaxPairs)
    /\ \E point \in PointSet(Len(landmarks_image)), added \in BOOLEAN :
          /\ add_image_landmark(point, added)
          /\ ret' = Call("add_image_landmark", <<point>>, added, <<>>, <<>>)
          /\ insertions' = Inserted("image", point, added)
    /\ UNCHANGED app

CallAddCsv ==
    /\ WithinPairs("csv", MaxPairs)
    /\ \E point \in PointSet(Len(landmarks_csv)), added \in BOOLEAN :
          /\ add_csv_landmark(point, added)
          /\ ret' = Call("add_csv_landmark", <<point>>, added, <<>>, <<>>)
          /\ insertions' = Inserted("csv", point, added)
    /\ UNCHANGED app

Exceptions == {None, "IndexError"}

CallUndo ==
    /\ \E raised \in Exceptions :
          /\ undo_last_landmark(raised)
          /\ ret' = Call("undo_last_landmark", <<>>, raised, <<>>, <<>>)
    /\ insertions' = Removed
    /\ UNCHANGED app

CallClear ==
    /\ clear_landmarks
    /\ ret' = Call("clear_landmarks", <<>>, None, <<>>, <<>>)
    /\ insertions' = <<>>
    /\ UNCHANGED app

CallGetPairs ==
    /\ ret' = Call("get_landmark_pairs", <<>>, get_landmark_pairs, <<>>, <<>>)
    /\ UNCHANGED <<registry, insertions>>
    /\ UNCHANGED app

NextRegistry ==
    \/ CallAddImage
    \/ CallAddCsv
    \/ CallUndo
    \/ CallClear
    \/ CallGetPairs

SpecRegistry == Init /\ [][NextRegistry]_vars

(***************************************************************************)
(* Controller (controller.py).  Every handler leaves in ret the messages   *)
(* it showed (status bar updates and message boxes, in order) and the      *)
(* calls it made to calculate_affine_transform.                            *)
(***************************************************************************)

Status(text) == [kind |-> "status", text |-> text]

Dialog(kind, title) == [kind |-> kind, text |-> title]

\* What Image.open(path) finds: a picture with content, a picture of one
\* uniform colour (auto_crop finds no foreground and np.min raises), or
\* nothing it can read.
ImageFiles == {"ok", "blank", "unreadable"}

\* What np.loadtxt(path) finds: rows of numbers, rows holding nan (int(nan)
\* raises in _create_image_from_coords), a header without rows
\* (raw_data.min raises), or nothing it can read.
CsvFiles == {"ok", "nan", "empty", "unreadable"}

ImagePaths == {"scan.png"}

CsvPaths == {"points.csv"}

\* The dialog cancelled: askopenfilename returns the empty string.
Cancelled == ""

\* Controller._preprocess_image: the processed image of the file at path.
preprocess_image(path) == "processed " \o path

\* Controller._preprocess_csv, controller.py:424-426: the scaled data of
\* the file at path.
preprocess_csv(path) == "scaled " \o path

\* Controller._update_calibrate_button_state, for lists of these lengths.
update_calibrate_button_state(n_image, n_csv) ==
    LET num_pairs == Min(n_image, n_csv) IN
    IF num_pairs >= MinPairs THEN "normal" ELSE "disabled"

\* Controller._create_overlay_image: the exception it raises, None when it
\* returns the composite.  Image.paste(None, (0, 0)) raises ValueError
\* (controller.py:255); np.hstack of the empty array of no pairs with a
\* (0, 1) array raises ValueError (controller.py:287).
create_overlay_image ==
    IF image = None
    THEN "ValueError"
    ELSE IF Len(get_landmark_pairs[2]) = 0
    THEN "ValueError"
    ELSE None

\* A load that forgets to clear the landmarks.
load_image_keeps_landmarks(path, file) ==
    IF path = Cancelled
    THEN /\ ret' = Call("load_image", <<path>>, None, <<>>, <<>>)
         /\ UNCHANGED <<registry, insertions, inputs, calibration_results,
                        calibrate_button>>
    ELSE IF file = "unreadable"
    THEN /\ ret' = Call("load_image", <<path>>, None,
                        <<Dialog("error", "Error")>>, <<>>)
         /\ UNCHANGED <<registry, insertions, inputs, calibration_results,
                        calibrate_button>>
    ELSE IF file = "blank"
    THEN /\ image_path' = path
         /\ ret' = Call("load_image", <<path>>, None,
                        <<Dialog("error", "Error")>>, <<>>)
         /\ UNCHANGED <<registry, insertions, image, csv_path,
                        scaled_csv_data, calibration_results,
                        calibrate_button>>
    ELSE /\ image_path' = path
         /\ image' = preprocess_image(path)
         /\ ret' = Call("load_image", <<path>>, None,
                        <<Status("Loaded and processed Image")>>, <<>>)
         /\ UNCHANGED <<registry, insertions, csv_path, scaled_csv_data,
                        calibration_results, calibrate_button>>

\* Controller.load_image(path) when the file at path is file.
load_image(path, file) ==
    IF path = Cancelled
    THEN /\ ret' = Call("load_image", <<path>>, None, <<>>, <<>>)
         /\ UNCHANGED <<registry, insertions, inputs, calibration_results,
                        calibrate_button>>
    ELSE IF file = "unreadable"
    THEN /\ ret' = Call("load_image", <<path>>, None,
                        <<Dialog("error", "Error")>>, <<>>)
         /\ UNCHANGED <<registry, insertions, inputs, calibration_results,
                        calibrate_button>>
    ELSE IF file = "blank"
    THEN /\ image_path' = path
         /\ ret' = Call("load_image", <<path>>, None,
                        <<Dialog("error", "Error")>>, <<>>)
         /\ UNCHANGED <<registry, insertions, image, csv_path,
                        scaled_csv_data, calibration_results,
                        calibrate_button>>
    ELSE /\ image_path' = path
         /\ image' = preprocess_image(path)
         /\ clear_landmarks
         /\ insertions' = <<>>
         /\ ret' = Call("load_image", <<path>>, None,
                        <<Status("Loaded and processed Image")>>, <<>>)
         /\ UNCHANGED <<csv_path, scaled_csv_data, calibration_results,
                        calibrate_button>>

\* Controller.load_csv(path) when the file at path is file.
load_csv(path, file) ==
    IF path = Cancelled
    THEN /\ ret' = Call("load_csv", <<path>>, None, <<>>, <<>>)
         /\ UNCHANGED <<registry, insertions, inputs, calibration_results,
                        calibrate_button>>
    ELSE IF file = "unreadable"
    THEN /\ ret' = Call("load_csv", <<path>>, None,
                        <<Dialog("error", "Error")>>, <<>>)
         /\ UNCHANGED <<registry, insertions, inputs, calibration_results,
                        calibrate_button>>
    ELSE IF file = "empty"
    THEN /\ csv_path' = path
         /\ ret' = Call("load_csv", <<path>>, None,
                        <<Dialog("error", "Error")>>, <<>>)
         /\ UNCHANGED <<registry, insertions, image_path, image,
                        scaled_csv_data, calibration_results,
                        calibrate_button>>
    ELSE IF file = "nan"
    THEN /\ csv_path' = path
         /\ scaled_csv_data' = preprocess_csv(path)
         /\ ret' = Call("load_csv", <<path>>, None,
                        <<Dialog("error", "Error")>>, <<>>)
         /\ UNCHANGED <<registry, insertions, image_path, image,
                        calibration_results, calibrate_button>>
    ELSE /\ csv_path' = path
         /\ scaled_csv_data' = preprocess_csv(path)
         /\ clear_landmarks
         /\ insertions' = <<>>
         /\ ret' = Call("load_csv", <<path>>, None,
                        <<Status("Loaded and processed CSV")>>, <<>>)
         /\ UNCHANGED <<image_path, image, calibration_results,
                        calibrate_button>>

\* A handler that swallows the rejection.
add_landmark_silent(event, canvas_type) ==
    LET point == ClickPoint(event) IN
    \E added \in BOOLEAN :
       /\ IF canvas_type = "image"
          THEN add_image_landmark(point, added)
          ELSE add_csv_landmark(point, added)
       /\ insertions' = Inserted(canvas_type, point, added)
       /\ ret' = Call("_add_landmark", <<event, canvas_type>>, added,
                      <<>>, <<>>)
       /\ calibrate_button' =
              update_calibrate_button_state(Len(landmarks_image'),
                                            Len(landmarks_csv'))
       /\ UNCHANGED <<inputs, calibration_results>>

\* Controller._add_landmark(event, canvas_type); ret.value is what the
\* model's add returned to it.
add_landmark(event, canvas_type) ==
    LET point == ClickPoint(event) IN
    \E added \in BOOLEAN :
       /\ IF canvas_type = "image"
          THEN add_image_landmark(point, added)
          ELSE add_csv_landmark(point, added)
       /\ insertions' = Inserted(canvas_type, point, added)
       /\ IF added
          THEN /\ ret' = Call("_add_landmark", <<event, canvas_type>>, added,
                              <<>>, <<>>)
               /\ calibrate_button' =
                      update_calibrate_button_state(Len(landmarks_image'),
                                                    Len(landmarks_csv'))
          ELSE /\ ret' = Call("_add_landmark", <<event, canvas_type>>, added,
                              <<Status(IF canvas_type = "image"
                                  THEN "Maximum number of image landmarks (12) reached."
                                  ELSE "Maximum number of CSV landmarks (12) reached.")>>,
                              <<>>)
               /\ calibrate_button' = calibrate_button
       /\ UNCHANGED <<inputs, calibration_results>>

\* Controller.undo_last_point
undo_last_point ==
    /\ \E raised \in Exceptions :
          /\ undo_last_landmark(raised)
          /\ ret' = Call("undo_last_point", <<>>, raised, <<>>, <<>>)
    /\ insertions' = Removed
    /\ calibrate_button' =
           update_calibrate_button_state(Len(landmarks_image'),
                                         Len(landmarks_csv'))
    /\ UNCHANGED <<inputs, calibration_results>>

\* controller.py:287-288: np.dot(csv_points_padded, affine_matrix_2x3.T),
\* the points the overlay draws for the paired CSV landmarks.
transformed_landmark_points ==
    LET csv_points == get_landmark_pairs[2]
        affine_matrix_2x3 == calibration_results.affine_matrix
    IN  [i \in 1..Len(csv_points) |->
            [c \in 1..2 |->
                FAdd(FAdd(FMul(Frac(csv_points[i][1], 1),
                               affine_matrix_2x3[c][1]),
                          FMul(Frac(csv_points[i][2], 1),
                               affine_matrix_2x3[c][2])),
                     affine_matrix_2x3[c][3])]]

\* A handler that passes the arrays in the order get_landmark_pairs
\* returns them.
run_calibration_image_first ==
    LET image_points == get_landmark_pairs[1]
        csv_points == get_landmark_pairs[2]
    IN  /\ UNCHANGED <<registry, insertions, inputs, calibrate_button>>
        /\ IF Len(image_points) < MinPairs
           THEN /\ ret' = Call("run_calibration", <<>>, None,
                               <<Dialog("error", "Calibration Error")>>, <<>>)
                /\ calibration_results' = calibration_results
           ELSE /\ calibration_results'
                      = calculate_affine_transform(image_points,
                                                   csv_points).result
                /\ ret' = Call("run_calibration", <<>>, None,
                               <<IF create_overlay_image = None
                                 THEN Dialog("window", "Calibration Results")
                                 ELSE Dialog("error", "Calibration Error")>>,
                               << <<image_points, csv_points>> >>)

\* A handler without the test of controller.py:214.
run_calibration_unblocked ==
    LET image_points == get_landmark_pairs[1]
        csv_points == get_landmark_pairs[2]
        results == calculate_affine_transform(csv_points, image_points)
        calls == << <<csv_points, image_points>> >>
    IN  /\ UNCHANGED <<registry, insertions, inputs, calibrate_button>>
        /\ IF results.raised # None
           THEN /\ ret' = Call("run_calibration", <<>>, None,
                               <<Dialog("error", "Calibration Error")>>, calls)
                /\ calibration_results' = calibration_results
           ELSE /\ calibration_results' = results.result
                /\ ret' = Call("run_calibration", <<>>, None,
                               <<Dialog("window", "Calibration Results")>>,
                               calls)

\* A handler whose overlay is drawn on the model's image itself instead of
\* on the fresh canvas of controller.py:252-255.
run_calibration_draws_on_image ==
    LET image_points == get_landmark_pairs[1]
        csv_points == get_landmark_pairs[2]
    IN  /\ UNCHANGED <<registry, insertions, image_path, csv_path,
                       scaled_csv_data, calibrate_button>>
        /\ IF Len(image_points) < MinPairs
           THEN /\ ret' = Call("run_calibration", <<>>, None,
                               <<Dialog("error", "Calibration Error")>>, <<>>)
                /\ calibration_results' = calibration_results
                /\ image' = image
           ELSE /\ calibration_results'
                      = calculate_affine_transform(csv_points,
                                                   image_points).result
                /\ image' = IF create_overlay_image = None
                            THEN "overlay"
                            ELSE image
                /\ ret' = Call("run_calibration", <<>>, None,
                               <<IF create_overlay_image = None
                                 THEN Dialog("window", "Calibration Results")
                                 ELSE Dialog("error", "Calibration Error")>>,
                               << <<csv_points, image_points>> >>)

\* Controller.run_calibration
run_calibration ==
    LET image_points == get_landmark_pairs[1]
        csv_points == get_landmark_pairs[2]
    IN  /\ UNCHANGED <<registry, insertions, inputs, calibrate_button>>
        /\ IF Len(image_points) < MinPairs
           THEN /\ ret' = Call("run_calibration", <<>>, None,
                               <<Dialog("error", "Calibration Error")>>, <<>>)
                /\ calibration_results' = calibration_results
           ELSE LET results == calculate_affine_transform(csv_points,
                                                          image_points)
                    calls == << <<csv_points, image_points>> >>
                IN  IF results.raised # None
                    THEN /\ ret' = Call("run_calibration", <<>>, None,
                                        <<Dialog("error", "Calibration Error")>>,
                                        calls)
                         /\ calibration_results' = calibration_results
                    ELSE /\ calibration_results' = results.result
                         /\ ret' = Call("run_calibration", <<>>, None,
                                <<IF create_overlay_image = None
                                  THEN Dialog("window", "Calibration Results")
                                  ELSE Dialog("error", "Calibration Error")>>,
                                calls)

\* controller.py:350-352: ndarray.tolist(), the nested list of the rows of
\* an array; a list is not an array.
tolist(array) == <<"list", array>>

\* controller.py:339-352: the dict save_results writes as JSON (without
\* its timestamp).  The model's dict is copied (dict.copy(), line 347) and
\* the copy's matrix replaced by its list.
data_to_save ==
    [csv_file |-> csv_path,
     image_file |-> image_path,
     landmarks |-> [image |-> landmarks_image, csv |-> landmarks_csv],
     calibration_results |->
         [calibration_results EXCEPT !.affine_matrix = tolist(@)]]

\* What save_results leaves in ret.value: the files it wrote and the JSON
\* document among them.
Saved(files, json) == [files |-> files, json |-> json]

\* A save without the copy of controller.py:347: the assignment of line 350
\* stores the list in the model's own dict, and the next save finds a list
\* where it calls tolist().
save_results_in_place ==
    /\ UNCHANGED <<registry, insertions, inputs, calibrate_button>>
    /\ IF calibration_results = EmptyDict
       THEN /\ ret' = Call("save_results", <<>>, Saved({}, <<>>),
                           <<Dialog("warning", "No Results")>>, <<>>)
            /\ calibration_results' = calibration_results
       ELSE IF Len(calibration_results.affine_matrix) # 3
       THEN /\ ret' = Call("save_results", <<>>, Saved({}, <<>>),
                           <<Dialog("error", "Save Error")>>, <<>>)
            /\ calibration_results' = calibration_results
       ELSE /\ ret' = Call("save_results", <<>>,
                           Saved({"calibration_results.json"}, data_to_save),
                           <<Dialog("error", "Save Error")>>, <<>>)
            /\ calibration_results' = data_to_save.calibration_results

\* Controller.save_results
save_results ==
    /\ UNCHANGED <<registry, insertions, inputs, calibrate_button,
                   calibration_results>>
    /\ IF calibration_results = EmptyDict
       THEN ret' = Call("save_results", <<>>, Saved({}, <<>>),
                        <<Dialog("warning", "No Results")>>, <<>>)
       ELSE IF create_overlay_image # None
       THEN ret' = Call("save_results", <<>>,
                        Saved({"calibration_results.json"}, data_to_save),
                        <<Dialog("error", "Save Error")>>, <<>>)
       ELSE IF scaled_csv_data = None
       THEN ret' = Call("save_results", <<>>,
                        Saved({"calibration_results.json",
                               "calibration_results_overlay.png"},
                              data_to_save),
                        <<Status("Results saved"), Dialog("info", "Success"),
                          Dialog("error", "Save Error")>>, <<>>)
       ELSE ret' = Call("save_results", <<>>,
                        Saved({"calibration_results.json",
                               "calibration_results_overlay.png",
                               "calibrated_points.csv"},
                              data_to_save),
                        <<Status("Results saved"), Dialog("info", "Success"),
                          Status("Calibrated points saved"),
                          Dialog("info", "Success")>>, <<>>)

(***************************************************************************)
(* Spec: the application, its handlers run in any order by the user        *)
(***************************************************************************)

\* The events offered in Spec for the next click on a canvas holding n
\* landmarks: the first click on the CSV canvas ranges over Events.
SessionClickSet(canvas_type, n) ==
    IF canvas_type = "csv" /\ n = 0 THEN Events ELSE {FirstEvent}

Click ==
    \E canvas_type \in Canvases :
       LET n == IF canvas_type = "image"
                THEN Len(landmarks_image) ELSE Len(landmarks_csv)
       IN  /\ n < MaxClicks
           /\ \E event \in SessionClickSet(canvas_type, n) :
                  add_landmark(event, canvas_type)

Undo == undo_last_point

Calibrate == run_calibration

Save == save_results

LoadImage ==
    \E path \in ImagePaths \cup {Cancelled} :
       \E file \in IF path = Cancelled THEN {"unreadable"} ELSE ImageFiles :
          load_image(path, file)

LoadCsv ==
    \E path \in CsvPaths \cup {Cancelled} :
       \E file \in IF path = Cancelled THEN {"unreadable"} ELSE CsvFiles :
          load_csv(path, file)

Next ==
    \/ Click
    \/ Undo
    \/ Calibrate
    \/ Save
    \/ LoadImage
    \/ LoadCsv

Spec == Init /\ [][Next]_vars

(***************************************************************************)
(* SpecCap: the user clicks and undoes until the lists are full            *)
(***************************************************************************)

ClickToCap ==
    \E canvas_type \in Canvases :
       LET n == IF canvas_type = "image"
                THEN Len(landmarks_image) ELSE Len(landmarks_csv)
       IN  /\ WithinPairs(canvas_type, MaxPairs)
           /\ \E event \in ClickSet(n) : add_landmark(event, canvas_type)

NextCap ==
    \/ ClickToCap
    \/ Undo

SpecCap == Init /\ [][NextCap]_vars

(***************************************************************************)
(* SpecFit: the user loads a picture or not, places the landmarks of the   *)
(* image and then those of the CSV view on the corners of a triangle, and  *)
(* calibrates                                                              *)
(***************************************************************************)

\* The events of the clicks: they record the landmarks (0,0), (1,0), (0,1).
FitEvents == {<<25, 25>>, <<26, 25>>, <<25, 26>>}

LoadFit ==
    /\ image = None
    /\ action_history = <<>>
    /\ \E path \in ImagePaths : load_image(path, "ok")

ClickFit ==
    \E canvas_type \in Canvases, event \in FitEvents :
       /\ calibration_results = EmptyDict
       /\ IF canvas_type = "image"
          THEN Len(landmarks_image) < MaxClicks /\ landmarks_csv = <<>>
          ELSE Len(landmarks_image) >= MinPairs
               /\ Len(landmarks_csv) < Len(landmarks_image)
       /\ add_landmark(event, canvas_type)

NextFit ==
    \/ LoadFit
    \/ ClickFit
    \/ Calibrate

SpecFit == Init /\ [][NextFit]_vars

(***************************************************************************)
(* SpecEstimator: calculate_affine_transform called on its own with any    *)
(* two arrays of the same length, as tests/test_analysis.py calls it       *)
(***************************************************************************)

\* The coordinates the arrays are drawn from.
EstimatorPoints == {<<0, 0>>, <<1, 0>>, <<0, 1>>}

PointArrays(n) == [1..n -> EstimatorPoints]

\* tests/test_analysis.py:8-9: three points and their images under
\* p * 2 + [10, 20].
TestImagePoints == <<<<10, 10>>, <<20, 10>>, <<10, 20>>>>

TestCsvPoints == <<<<30, 40>>, <<50, 40>>, <<30, 60>>>>

\* Maps of the plane, 2 rows of 3 integers: the identity, scalings by 2
\* with a translation, a quarter turn with a translation.
Transforms ==
    { <<<<1, 0, 0>>, <<0, 1, 0>>>>,
      <<<<2, 0, 1>>, <<0, 2, 2>>>>,
      <<<<2, 0, 10>>, <<0, 2, 20>>>>,
      <<<<0, -1, 1>>, <<1, 0, 0>>>> }

ApplyMap(T, p) ==
    <<T[1][1] * p[1] + T[1][2] * p[2] + T[1][3],
      T[2][1] * p[1] + T[2][2] * p[2] + T[2][3]>>

MapPoints(T, points) == [i \in 1..Len(points) |-> ApplyMap(T, points[i])]

\* The pairs of arrays the estimator is called with: any two arrays of one
\* length, an array with its image under a map, and the arrays of the test.
EstimatorInputs ==
    UNION { {<<image_points, csv_points>> :
                 image_points \in PointArrays(n), csv_points \in PointArrays(n)}
            \cup {<<image_points, MapPoints(T, image_points)>> :
                     image_points \in PointArrays(n), T \in Transforms}
            : n \in 0..MaxArray }
    \cup {<<TestImagePoints, TestCsvPoints>>}

\* The caller holds two arrays of the same length ...
InitEstimator ==
    /\ ModelInit
    /\ calibrate_button = "disabled"
    /\ insertions = <<>>
    /\ \E input \in EstimatorInputs :
          ret = Call("caller", input, None, <<>>, <<>>)

\* ... and calls the estimator with them.
CallEstimate ==
    /\ ret.op = "caller"
    /\ ret' = Call("calculate_affine_transform", ret.args,
                   calculate_affine_transform(ret.args[1], ret.args[2]),
                   <<>>, <<>>)
    /\ UNCHANGED <<registry, insertions>>
    /\ UNCHANGED app

NextEstimator == CallEstimate

SpecEstimator == InitEstimator /\ [][NextEstimator]_vars

(***************************************************************************)
(* SpecImage: the functions of image.py called on their own on small       *)
(* images, as tests/test_image.py calls them                               *)
(***************************************************************************)

\* tests/test_image.py:11-12: the colours of the background and of the
\* object, and a colour at distance DefaultThreshold from the background.
White == <<255, 255, 255>>

Dark == <<10, 20, 30>>

Edge == <<245, 255, 255>>

Palette == {White, Edge, Dark}

Shapes(n) == {s \in (1..n) \X (1..n) : s[1] * s[2] <= n}

RgbImages(n) ==
    UNION { {Array(s, px) : px \in [Pixels(s) -> Palette]} : s \in Shapes(n) }

\* The image with an opaque alpha channel, as np.array of an RGBA picture.
WithAlpha(img) ==
    Array(img.shape, [p \in Pixels(img.shape) |-> img.px[p] \o <<255>>])

Images ==
    RgbImages(MaxPixels)
    \cup {WithAlpha(img) : img \in RgbImages(MaxPixels - 2)}

Thresholds == {0, DefaultThreshold}

Modes == {"fill", "value"}

\* tests/test_image.py:43-46: a 10x20 image of colour 50 and its target.
TestSmallImage == Array(<<10, 20>>, [p \in Pixels(<<10, 20>>) |-> <<50, 50, 50>>])

TestNewShape == <<40, 30>>

\* tests/test_image.py:11-12: a 100x100 white image with a block of 20
\* rows and 30 columns, and the borders the tests crop it with.
TestImage ==
    Array(<<100, 100>>,
          [p \in Pixels(<<100, 100>>) |->
              IF p[1] \in 40..59 /\ p[2] \in 35..64 THEN Dark ELSE White])

TestBorders == {0, 10}

\* The caller holds the arguments of one call ...
InitImage ==
    /\ ModelInit
    /\ calibrate_button = "disabled"
    /\ insertions = <<>>
    /\ \/ \E img \in Images, threshold \in Thresholds, mode \in Modes :
             \E init_pos \in Pixels(img.shape) :
                ret = Call("caller",
                           <<"remove_background", img, threshold, init_pos,
                             mode>>, <<>>, <<>>, <<>>)
       \/ \E img \in Images, borders \in 0..MaxBorder :
             ret = Call("caller", <<"auto_crop", img, borders>>, <<>>,
                        <<>>, <<>>)
       \/ \E img \in Images, new_shape \in (1..MaxTarget) \X (1..MaxTarget) :
             ret = Call("caller", <<"pad_image_to_center", img, new_shape>>,
                        <<>>, <<>>, <<>>)
       \/ ret = Call("caller",
                     <<"pad_image_to_center", TestSmallImage, TestNewShape>>,
                     <<>>, <<>>, <<>>)
       \/ \E borders \in TestBorders :
             ret = Call("caller", <<"auto_crop", TestImage, borders>>, <<>>,
                        <<>>, <<>>)

\* ... and makes it.
CallRemoveBackground ==
    /\ ret.op = "caller"
    /\ ret.args[1] = "remove_background"
    /\ ret' = Call("remove_background", ret.args,
                   remove_background(ret.args[2], ret.args[3], ret.args[4],
                                     ret.args[5]),
                   <<>>, <<>>)
    /\ UNCHANGED <<registry, insertions>>
    /\ UNCHANGED app

CallAutoCrop ==
    /\ ret.op = "caller"
    /\ ret.args[1] = "auto_crop"
    /\ ret' = Call("auto_crop", ret.args,
                   auto_crop(ret.args[2], ret.args[3]), <<>>, <<>>)
    /\ UNCHANGED <<registry, insertions>>
    /\ UNCHANGED app

CallPad ==
    /\ ret.op = "caller"
    /\ ret.args[1] = "pad_image_to_center"
    /\ ret' = Call("pad_image_to_center", ret.args,
                   pad_image_to_center(ret.args[2], ret.args[3]), <<>>, <<>>)
    /\ UNCHANGED <<registry, insertions>>
    /\ UNCHANGED app

NextImage ==
    \/ CallRemoveBackground
    \/ CallAutoCrop
    \/ CallPad

SpecImage == InitImage /\ [][NextImage]_vars

(***************************************************************************)
(* SpecFrame: a CSV file of a few rows is loaded and the user clicks on    *)
(* the markers of its points in the CSV view                               *)
(***************************************************************************)

\* app.py:59: the side of the two canvases.
canvas_size == 500

\* controller.py:416: the margin the scaled data leaves on the canvas.
CanvasMargin == 50

\* controller.py:462, 470: the distance of a data point from the left and
\* the top edge of the picture drawn of the data.
PointOffset == 10

\* controller.py:470: the radius of the marker of a data point.
MarkerRadius == 2

\* controller.py:445: the borders the picture is cropped with.
CropBorders == 50

\* The rows of a file have at most MaxRows rows over these coordinates.
MaxRows == 2

RawPoints == {<<5, 7>>, <<6, 7>>, <<5, 8>>}

\* raw_data.min(axis=0)[c] and raw_data.max(axis=0)[c]
ColumnMin(raw_data, c) == SetMin({raw_data[i][c] : i \in DOMAIN raw_data})

ColumnMax(raw_data, c) == SetMax({raw_data[i][c] : i \in DOMAIN raw_data})

\* controller.py:412-421: the scaling factor, a fraction.
scale(raw_data) ==
    LET x_min == ColumnMin(raw_data, 1)
        y_min == ColumnMin(raw_data, 2)
        x_max == ColumnMax(raw_data, 1)
        y_max == ColumnMax(raw_data, 2)
        target_dim == canvas_size - CanvasMargin
        scale_x == IF x_max - x_min > 0
                   THEN Frac(target_dim, x_max - x_min) ELSE Frac(1, 1)
        scale_y == IF y_max - y_min > 0
                   THEN Frac(target_dim, y_max - y_min) ELSE Frac(1, 1)
    IN  IF FLeq(scale_x, scale_y) THEN scale_x ELSE scale_y

\* controller.py:424: the scaled data, rows of two fractions.
scaled_data(raw_data) ==
    [i \in DOMAIN raw_data |->
        <<FMul(Frac(raw_data[i][1] - ColumnMin(raw_data, 1), 1),
               scale(raw_data)),
          FMul(Frac(raw_data[i][2] - ColumnMin(raw_data, 2), 1),
               scale(raw_data))>>]

\* The files explored: rows on one horizontal or vertical line, which the
\* code leaves unscaled (an axis without extent has scale 1), so that their
\* pictures are small.
RawData ==
    {raw_data \in UNION {[1..n -> RawPoints] : n \in 1..MaxRows} :
        scale(raw_data) = Frac(1, 1)}

\* int(q) of a fraction that is not negative.
ToInt(q) == q[1] \div q[2]

\* The pixel <<row, column>> at the centre of the marker of the data point
\* (x, y) in the picture drawn of the data (controller.py:469-470).
marker_centre(point) ==
    <<ToInt(point[2]) + PointOffset, ToInt(point[1]) + PointOffset>>

\* Controller._create_image_from_coords followed by convert("RGBA")
\* (controller.py:445): a white picture of x_max + 20 columns and
\* y_max + 20 rows with a black disc of radius 2 around the centre of the
\* marker of every data point.
create_image_from_coords(data) ==
    LET x_max == SetMax({ToInt(data[i][1]) : i \in DOMAIN data})
        y_max == SetMax({ToInt(data[i][2]) : i \in DOMAIN data})
        img_size == <<x_max + 2 * PointOffset, y_max + 2 * PointOffset>>
        shape == <<img_size[2], img_size[1]>>
        drawn(p) == \E i \in DOMAIN data :
                       LET c == marker_centre(data[i])
                       IN  /\ Abs(p[1] - c[1]) <= MarkerRadius
                           /\ Abs(p[2] - c[2]) <= MarkerRadius
                           /\ Abs(p[1] - c[1]) + Abs(p[2] - c[2])
                                < 2 * MarkerRadius
    IN  Array(shape, [p \in Pixels(shape) |->
                         IF drawn(p) THEN <<0, 0, 0, 255>>
                         ELSE <<255, 255, 255, 255>>])

\* controller.py:445: the picture shown in the CSV view, or the exception
\* auto_crop raises.
csv_view(data) == auto_crop(create_image_from_coords(data), CropBorders)

\* image.py:113-123: the index in new_img of the pixel cropped[0, 0].
crop_origin(img, borders) ==
    LET new_img == bordered(img, borders)
        mask == remove_background(new_img, DefaultThreshold, <<0, 0>>,
                                  "fill").mask
        x == {p[1] : p \in {q \in Pixels(new_img.shape) : mask[q] = 255}}
        y == {p[2] : p \in {q \in Pixels(new_img.shape) : mask[q] = 255}}
    IN  <<SetMin(Slice(SetMin(x) - borders \div 2,
                       SetMax(x) + borders \div 2 + 1, new_img.shape[1])),
          SetMin(Slice(SetMin(y) - borders \div 2,
                       SetMax(y) + borders \div 2 + 1, new_img.shape[2]))>>

\* image.py:104-108, 119-123: where the pixel p of img is in the crop that
\* starts at origin.
cropped_position(origin, borders, p) ==
    <<p[1] + borders \div 2 - origin[1], p[2] + borders \div 2 - origin[2]>>

\* controller.py:445: where the crop of the picture of the data starts.
view_origin(data) == crop_origin(create_image_from_coords(data), CropBorders)

\* app.py:233: the view shows the picture with its corner at (25, 25) of
\* the canvas; the event (x, y) of a click on the pixel <<row, column>>.
event_at(pixel) == <<pixel[2] + CanvasPadding, pixel[1] + CanvasPadding>>

\* The click exactly at the centre of the marker of a data point, in the
\* view of a picture cropped from origin.
marker_event(origin, point) ==
    event_at(cropped_position(origin, CropBorders, marker_centre(point)))

\* Controller.load_csv(path) when np.loadtxt reads the rows raw_data from
\* the file at path.
load_csv_rows(path, raw_data) ==
    /\ csv_path' = path
    /\ scaled_csv_data' = scaled_data(raw_data)
    /\ IF csv_view(scaled_data(raw_data)).raised # None
       THEN /\ ret' = Call("load_csv", <<path>>, None,
                           <<Dialog("error", "Error")>>, <<>>)
            /\ UNCHANGED <<registry, insertions>>
       ELSE /\ clear_landmarks
            /\ insertions' = <<>>
            /\ ret' = Call("load_csv", <<path>>, None,
                           <<Status("Loaded and processed CSV")>>, <<>>)
    /\ UNCHANGED <<image_path, image, calibration_results, calibrate_button>>

\* The file chosen holds the rows raw_data ...
InitFrame ==
    /\ ModelInit
    /\ calibrate_button = "disabled"
    /\ insertions = <<>>
    /\ \E raw_data \in RawData :
          ret = Call("caller", <<"load_csv", raw_data>>, <<>>, <<>>, <<>>)

\* ... it is loaded ...
LoadRows ==
    /\ ret.op = "caller"
    /\ \E path \in CsvPaths : load_csv_rows(path, ret.args[2])

\* ... and the user clicks on the centres of the markers in the CSV view.
ClickMarker ==
    /\ csv_path # None
    /\ Len(landmarks_csv) < MaxClicks
    /\ LET origin == view_origin(scaled_csv_data) IN
       \E i \in DOMAIN scaled_csv_data :
          add_landmark(marker_event(origin, scaled_csv_data[i]), "csv")

\* The undo button, once a file is shown.
UndoMarker ==
    /\ csv_path # None
    /\ undo_last_point

NextFrame ==
    \/ LoadRows
    \/ ClickMarker
    \/ UndoMarker

SpecFrame == InitFrame /\ [][NextFrame]_vars

(***************************************************************************)
(* Claims                                                                  *)
(***************************************************************************)

\* C1: undo_last_landmark is LIFO across both landmark sets jointly: after
\* any accepted adds and k undos, each list holds exactly the points of the
\* insertions into it that are left when the last k insertions (over both
\* sets) are removed, in order of insertion.
C1_UndoIsJointLifo ==
    /\ landmarks_image = PointsOf(insertions, "image")
    /\ landmarks_csv = PointsOf(insertions, "csv")

\* C1 witness: an undo has just run and left landmarks in both sets, the
\* image set holding two different points.
C1_Witness ==
    /\ ret.op = "undo_last_landmark"
    /\ Len(landmarks_image) = 2
    /\ landmarks_image[1] # landmarks_image[2]
    /\ Len(landmarks_csv) = 1
    /\ Last(insertions).set = "csv"

\* C2: each landmark list holds at most 12 entries; an add to a list of
\* fewer than 12 entries is accepted and appends the point at the end of
\* that list, an add to a list of 12 is rejected.
C2_CapTwelve ==
    /\ [](Len(landmarks_image) <= 12 /\ Len(landmarks_csv) <= 12)
    /\ [][/\ ret'.op = "add_image_landmark" =>
              IF Len(landmarks_image) < 12
              THEN /\ ret'.value = TRUE
                   /\ landmarks_image' = Append(landmarks_image, ret'.args[1])
              ELSE /\ ret'.value = FALSE
                   /\ landmarks_image' = landmarks_image
           /\ ret'.op = "add_csv_landmark" =>
              IF Len(landmarks_csv) < 12
              THEN /\ ret'.value = TRUE
                   /\ landmarks_csv' = Append(landmarks_csv, ret'.args[1])
              ELSE /\ ret'.value = FALSE
                   /\ landmarks_csv' = landmarks_csv]_vars

\* C2 witness: the 13th add to the image list has just been rejected.
C2_Witness ==
    /\ ret.op = "add_image_landmark"
    /\ ret.value = FALSE
    /\ Len(landmarks_image) = 12

\* C4: get_landmark_pairs returns two arrays of length n = min of the two
\* list lengths, holding the first n entries of each list in order; the
\* call leaves the lists and the log as they are, and a second call right
\* after it returns the same arrays.
C4_PairsArePrefixes ==
    /\ [](ret.op = "get_landmark_pairs" =>
            LET n == IF Len(landmarks_image) <= Len(landmarks_csv)
                     THEN Len(landmarks_image)
                     ELSE Len(landmarks_csv)
            IN  /\ Len(ret.value[1]) = n
                /\ Len(ret.value[2]) = n
                /\ \A i \in 1..n :
                      /\ ret.value[1][i] = landmarks_image[i]
                      /\ ret.value[2][i] = landmarks_csv[i])
    /\ [][ret'.op = "get_landmark_pairs" => UNCHANGED registry]_vars
    /\ [][(ret.op = "get_landmark_pairs" /\ ret'.op = "get_landmark_pairs")
            => ret'.value = ret.value]_vars

\* C4 witness: pairs were taken with three image landmarks and two CSV
\* landmarks, so one image landmark is unpaired (test_get_landmark_pairs).
C4_Witness ==
    /\ ret.op = "get_landmark_pairs"
    /\ Len(landmarks_image) = 3
    /\ Len(landmarks_csv) = 2
    /\ Len(ret.value[1]) = 2

\* C9: right after clear_landmarks both lists and the undo log are empty,
\* get_landmark_pairs returns no pair and undo_last_landmark changes
\* nothing.
C9_ClearEmptiesAll ==
    /\ [](ret.op = "clear_landmarks" =>
            /\ landmarks_image = <<>>
            /\ landmarks_csv = <<>>
            /\ action_history = <<>>)
    /\ [][(ret.op = "clear_landmarks" /\ ret'.op = "get_landmark_pairs")
            => ret'.value = << <<>>, <<>> >>]_vars
    /\ [][(ret.op = "clear_landmarks" /\ ret'.op = "undo_last_landmark")
            => (UNCHANGED registry /\ ret'.value = None)]_vars

\* C9 witness: clear_landmarks has just returned.
C9_Witness ==
    /\ ret.op = "clear_landmarks"
    /\ insertions = <<>>
    /\ registry = << <<>>, <<>>, <<>> >>

\* C10: undo_last_landmark with an empty undo log raises nothing and
\* leaves both lists and the log unchanged.
C10_UndoOnEmptyLog ==
    [][(ret'.op = "undo_last_landmark" /\ action_history = <<>>)
        => (ret'.value = None /\ UNCHANGED registry)]_vars

\* C10 witness: an undo has returned normally with everything empty.
C10_Witness ==
    /\ ret.op = "undo_last_landmark"
    /\ ret.value = None
    /\ registry = << <<>>, <<>>, <<>> >>

\* C5: calculate_affine_transform with fewer than 3 pairs raises the
\* insufficient-points error whatever the points are, and returns no
\* result.
C5_FewerThanThreeFails ==
    (ret.op = "calculate_affine_transform" /\ Len(ret.args[1]) < 3) =>
        /\ ret.value.raised = "ValueError"
        /\ ret.value.message
             = "At least 3 landmark pairs are required for affine transformation."
        /\ DOMAIN ret.value = {"raised", "message"}

\* C5 witness: the call of test_calculate_affine_transform_insufficient_points,
\* two pairs of different points, has raised.
C5_Witness ==
    /\ ret.op = "calculate_affine_transform"
    /\ Len(ret.args[1]) = 2
    /\ ret.args[1][1] # ret.args[1][2]
    /\ ret.args[2][1] # ret.args[2][2]
    /\ ret.value.raised = "ValueError"

\* C3: an add to a list that holds 12 entries is rejected and the
\* rejection is reported (the model returns False, the handler shows the
\* maximum-reached status); it changes neither list nor the undo log, and
\* it is not fatal: whatever was rejected before, an add to a list of fewer
\* than 12 entries (the other list, or the same list after an undo) is
\* accepted and logged.
C3_RejectionReportedNotFatal ==
    [][ret'.op = "_add_landmark" =>
        LET canvas_type == ret'.args[2]
            target == IF canvas_type = "image"
                      THEN landmarks_image ELSE landmarks_csv
        IN  IF Len(target) = 12
            THEN /\ ret'.value = FALSE
                 /\ ret'.shown =
                      <<[kind |-> "status",
                         text |-> IF canvas_type = "image"
                            THEN "Maximum number of image landmarks (12) reached."
                            ELSE "Maximum number of CSV landmarks (12) reached."]>>
                 /\ UNCHANGED registry
            ELSE /\ ret'.value = TRUE
                 /\ ret'.shown = <<>>
                 /\ Len(action_history') = Len(action_history) + 1
                 /\ action_history'[Len(action_history')] = canvas_type]_vars

\* C3 witness: a click on the CSV canvas has been rejected at 12 CSV
\* landmarks while the image list still has room.
C3_Witness ==
    /\ ret.op = "_add_landmark"
    /\ ret.args[2] = "csv"
    /\ ret.value = FALSE
    /\ Len(landmarks_csv) = 12
    /\ Len(landmarks_image) = 1

\* C6: run_calibration with fewer than 3 complete pairs shows an error,
\* calls the estimator not once and leaves the stored result as it is;
\* every call it makes to the estimator (at most one) passes two arrays of
\* the same length N >= 3.
C6_CallerBlocksEstimation ==
    /\ [][(/\ ret'.op = "run_calibration"
           /\ (Len(landmarks_image) < 3 \/ Len(landmarks_csv) < 3))
          => /\ ret'.shown = <<[kind |-> "error", text |-> "Calibration Error"]>>
             /\ ret'.estimator = <<>>
             /\ calibration_results' = calibration_results]_vars
    /\ [](ret.op = "run_calibration" =>
            /\ Len(ret.estimator) <= 1
            /\ \A c \in 1..Len(ret.estimator) :
                  /\ Len(ret.estimator[c][1]) = Len(ret.estimator[c][2])
                  /\ Len(ret.estimator[c][1]) >= 3)

\* C6 witness: Calibrate was run with three image landmarks and two CSV
\* landmarks while a result of an earlier calibration was stored.
C6_Witness ==
    /\ ret.op = "run_calibration"
    /\ ret.estimator = <<>>
    /\ Len(landmarks_image) = 3
    /\ Len(landmarks_csv) = 2
    /\ calibration_results # EmptyDict

\* C7: when load_image or load_csv has loaded a file (it got as far as
\* its "Loaded and processed" status), both landmark lists and the undo
\* log are empty at its return.
C7_LoadClearsLandmarks ==
    (/\ ret.op \in {"load_image", "load_csv"}
     /\ ret.shown # <<>>
     /\ ret.shown[1].kind = "status")
    => /\ landmarks_image = <<>>
       /\ landmarks_csv = <<>>
       /\ action_history = <<>>

\* C7 witness: an image was loaded after a calibration, that is, with at
\* least three landmarks picked on each canvas before the load.
C7_Witness ==
    /\ ret.op = "load_image"
    /\ ret.shown = <<[kind |-> "status", text |-> "Loaded and processed Image"]>>
    /\ calibration_results # EmptyDict
    /\ registry = << <<>>, <<>>, <<>> >>

\* C8: the stored result persists only until the next successful
\* estimation or until inputs change: save_results and a blocked
\* run_calibration leave it unchanged, a successful estimation replaces it
\* by the fit of the current pairs, and once an image or a CSV has been
\* loaded no result is held, so that save_results then reports that no
\* calibration has been performed.
C8_ResultUntilInputsChange ==
    /\ [][ret'.op = "save_results"
          => calibration_results' = calibration_results]_vars
    /\ [][(ret'.op = "run_calibration" /\ ret'.estimator = <<>>)
          => calibration_results' = calibration_results]_vars
    /\ [][(ret'.op = "run_calibration" /\ ret'.estimator # <<>>)
          => /\ calibration_results' # EmptyDict
             /\ Len(calibration_results'.squared_errors)
                  = Len(ret'.estimator[1][1])]_vars
    /\ [](( /\ ret.op \in {"load_image", "load_csv"}
            /\ ret.shown # <<>>
            /\ ret.shown[1].kind = "status")
          => calibration_results = EmptyDict)
    /\ [][(/\ ret.op \in {"load_image", "load_csv"}
           /\ ret.shown # <<>>
           /\ ret.shown[1].kind = "status"
           /\ ret'.op = "save_results")
          => ret'.shown = <<[kind |-> "warning", text |-> "No Results"]>>]_vars


(***************************************************************************)
(* Claims about the fit                                                    *)
(***************************************************************************)

\* The estimator has returned a result dict.
Fitted == ret.op = "calculate_affine_transform" /\ ret.value.raised = None

NonCollinear(points) ==
    \E i, j, k \in 1..Len(points) :
        (points[j][1] - points[i][1]) * (points[k][2] - points[i][2])
        # (points[k][1] - points[i][1]) * (points[j][2] - points[i][2])

\* The 3x3 matrix of fractions of a map.
MatrixOf(T) ==
    <<[j \in Idx3 |-> Frac(T[1][j], 1)],
      [j \in Idx3 |-> Frac(T[2][j], 1)],
      <<Frac(0, 1), Frac(0, 1), Frac(1, 1)>> >>

\* M * [p; 1], its first two coordinates.
Transformed(M, p) ==
    [c \in 1..2 |->
        FAdd(FAdd(FMul(M[c][1], Frac(p[1], 1)), FMul(M[c][2], Frac(p[2], 1))),
             M[c][3])]

\* C11: when the second array is the image of the first under a map T and
\* the first holds three points not on a line, the matrix returned is T's
\* and every error, and their mean, is zero; the arrays of the test give
\* [[2,0,10],[0,2,20],[0,0,1]].
C11_ConsistentFitExact ==
    Fitted =>
        /\ \A T \in Transforms :
              ( /\ NonCollinear(ret.args[1])
                /\ ret.args[2] = MapPoints(T, ret.args[1]) )
              => /\ ret.value.result.affine_matrix = MatrixOf(T)
                 /\ \A i \in 1..Len(ret.args[1]) :
                       /\ ret.value.result.squared_errors[i] = Frac(0, 1)
                       /\ ret.value.result.errors[i] = Frac(0, 1)
                 /\ ret.value.result.mean_error = Frac(0, 1)
        /\ ret.args = <<TestImagePoints, TestCsvPoints>>
           => ret.value.result.affine_matrix
              = << <<<<2, 1>>, <<0, 1>>, <<10, 1>>>>,
                   <<<<0, 1>>, <<2, 1>>, <<20, 1>>>>,
                   <<<<0, 1>>, <<0, 1>>, <<1, 1>>>> >>

C11_Witness ==
    /\ Fitted
    /\ ret.args = <<TestImagePoints, TestCsvPoints>>
    /\ ret.value.result.affine_matrix[1] = <<<<2, 1>>, <<0, 1>>, <<10, 1>>>>
    /\ ret.value.result.max_error = Frac(0, 1)

\* C13: every call with 3 or more pairs, collinear or coincident points
\* included, returns a result whose matrix has 3 rows of 3 numbers, the
\* last row being exactly [0, 0, 1].
C13_MatrixShape ==
    (ret.op = "calculate_affine_transform" /\ Len(ret.args[1]) >= MinPairs)
    => /\ ret.value.raised = None
       /\ LET M == ret.value.result.affine_matrix
          IN  /\ Len(M) = 3
              /\ \A i \in 1..3 :
                    /\ Len(M[i]) = 3
                    /\ \A j \in 1..3 :
                          M[i][j] \in Int \X (Nat \ {0})
              /\ M[3] = <<<<0, 1>>, <<0, 1>>, <<1, 1>>>>

C13_Witness ==
    /\ Fitted
    /\ ~ NonCollinear(ret.args[1])
    /\ ret.args[1][1] = <<1, 0>>
    /\ ret.args[1][2] = <<1, 0>>
    /\ ret.value.result.affine_matrix[3] = <<<<0, 1>>, <<0, 1>>, <<1, 1>>>>

\* C14: a result holds one error per pair, in the order of the pairs: the
\* distance, never negative, between the returned matrix applied to the
\* point of the first array and the point of the second; min_error and
\* max_error are the smallest and the largest of them, mean_error their
\* arithmetic mean, and min_error <= mean_error <= max_error.
C14_ErrorsPerPair ==
    Fitted =>
        LET r == ret.value.result
            n == Len(ret.args[1])
            at(i) == Transformed(r.affine_matrix, ret.args[1][i])
            d(i, c) == FSub(at(i)[c], Frac(ret.args[2][i][c], 1))
        IN  /\ Len(r.errors) = n
            /\ \A i \in 1..n :
                  /\ r.errors[i]
                     = Sqrt(FAdd(FMul(d(i, 1), d(i, 1)), FMul(d(i, 2), d(i, 2))))
                  /\ FLeq(Frac(0, 1), r.errors[i])
                  /\ FLeq(r.min_error, r.errors[i])
                  /\ FLeq(r.errors[i], r.max_error)
            /\ \E i \in 1..n : r.min_error = r.errors[i]
            /\ \E i \in 1..n : r.max_error = r.errors[i]
            /\ FMul(r.mean_error, Frac(n, 1)) = FSum(r.errors, n)
            /\ FLeq(r.min_error, r.mean_error)
            /\ FLeq(r.mean_error, r.max_error)

C14_Witness ==
    /\ Fitted
    /\ ret.value.result.min_error # ret.value.result.mean_error
    /\ ret.value.result.mean_error # ret.value.result.max_error
    /\ ret.value.result.errors[1] # ret.value.result.errors[2]
    /\ ret.value.result.errors[3] # Frac(0, 1)


\* Maps of the plane with coefficients -1, 0 and 1.
UnitMaps == [1..2 -> [1..3 -> {-1, 0, 1}]]

\* run_calibration has just stored a result.
Calibrated ==
    /\ ret.op = "run_calibration"
    /\ ret.estimator # <<>>
    /\ calibration_results # EmptyDict

\* C12: the matrix run_calibration stores maps the CSV landmark of every
\* pair onto its image landmark whenever some affine map does, and the
\* points the overlay draws for the CSV landmarks, computed with that
\* matrix, are then the image landmarks.
C12_MatrixMapsCsvOntoImage ==
    Calibrated =>
        LET image_points == get_landmark_pairs[1]
            csv_points == get_landmark_pairs[2]
            M == calibration_results.affine_matrix
            on(i) == [c \in 1..2 |-> Frac(image_points[i][c], 1)]
        IN  /\ ret.estimator = << <<csv_points, image_points>> >>
            /\ (\E T \in UnitMaps : image_points = MapPoints(T, csv_points))
               => \A i \in 1..Len(csv_points) :
                     /\ Transformed(M, csv_points[i]) = on(i)
                     /\ transformed_landmark_points[i] = on(i)

C12_Witness ==
    /\ Calibrated
    /\ image # None
    /\ ret.shown[1].text = "Calibration Results"
    /\ landmarks_csv = <<<<0, 0>>, <<1, 0>>, <<0, 1>>>>
    /\ landmarks_image = <<<<1, 0>>, <<0, 1>>, <<0, 0>>>>
    /\ transformed_landmark_points[1] = <<<<1, 1>>, <<0, 1>>>>


(***************************************************************************)
(* Claims about image.py                                                   *)
(***************************************************************************)

\* remove_background has returned; its arguments and results.
Removed_background == ret.op = "remove_background"

\* The pixels of the image of the call whose colour is at a distance of at
\* most threshold from the colour of the sampled pixel.
WithinTolerance ==
    LET img == ret.args[2] IN
    {p \in Pixels(img.shape) :
        SquaredNorm(Rgb(img.px[p]), Rgb(img.px[ret.args[4]]))
        <= ret.args[3] * ret.args[3]}

\* The pixels the returned mask marks as background.
Background == {p \in DOMAIN ret.value.mask : ret.value.mask[p] = 0}

\* q is one step up, down, left or right of p.
Adjacent(p, q) ==
    \/ p[1] = q[1] /\ (p[2] - q[2] = 1 \/ q[2] - p[2] = 1)
    \/ p[2] = q[2] /\ (p[1] - q[1] = 1 \/ q[1] - p[1] = 1)

\* S holds every pixel within tolerance that is one step from a pixel of S.
ClosedUnderSteps(S) ==
    \A p \in S : \A q \in WithinTolerance : Adjacent(p, q) => q \in S

\* C15: in 'fill' mode the background is the least set of pixels that
\* holds the sample position and, with a pixel, every pixel within
\* tolerance one horizontal or vertical step away: the pixels reachable
\* from the sample position by such steps, and no other, diagonal
\* neighbours of the same colour included.
C15_FillIsFourConnectedRegion ==
    (Removed_background /\ ret.args[5] = "fill")
    => /\ ret.args[4] \in Background
       /\ Background \subseteq WithinTolerance
       /\ ClosedUnderSteps(Background)
       /\ \A S \in SUBSET Background :
             (ret.args[4] \in S /\ ClosedUnderSteps(S)) => S = Background
       /\ \A p \in Pixels(ret.args[2].shape) \ Background :
             ret.value.mask[p] = 255

C15_Witness ==
    /\ Removed_background
    /\ ret.args[5] = "fill"
    /\ ret.args[2].shape = <<2, 2>>
    /\ ret.args[4] = <<0, 0>>
    /\ ret.args[3] = DefaultThreshold
    /\ ret.args[2].px[<<1, 1>>] = ret.args[2].px[<<0, 0>>]
    /\ <<1, 1>> \in WithinTolerance
    /\ ret.value.mask[<<1, 1>>] = 255
    /\ ret.value.mask[<<0, 0>>] = 0

\* C16: in 'value' mode a pixel is background exactly when its colour
\* distance to the sampled colour is within the tolerance.
C16_ValueIsWithinTolerance ==
    (Removed_background /\ ret.args[5] = "value")
    => \A p \in Pixels(ret.args[2].shape) :
          /\ ret.value.mask[p] \in {0, 255}
          /\ ret.value.mask[p] = 0 <=> p \in WithinTolerance

\* C17: in either mode and for every tolerance the mask holds only 0 and
\* 255, it is 0 at the sample position, and the image returned has the
\* shape of the input, 4 channels, and the mask as its alpha channel.
C17_MaskBinarySampleBackground ==
    Removed_background
    => /\ DOMAIN ret.value.mask = Pixels(ret.args[2].shape)
       /\ \A p \in Pixels(ret.args[2].shape) :
             /\ ret.value.mask[p] \in {0, 255}
             /\ Len(ret.value.new_img.px[p]) = 4
             /\ ret.value.new_img.px[p][4] = ret.value.mask[p]
       /\ ret.value.new_img.shape = ret.args[2].shape
       /\ ret.value.mask[ret.args[4]] = 0

\* The foreground auto_crop finds: the pixels of the framed image that
\* remove_background, sampling the corner with the default tolerance in
\* 'fill' mode, leaves opaque.
CropForeground ==
    LET new_img == bordered(ret.args[2], ret.args[3])
        mask == remove_background(new_img, DefaultThreshold, <<0, 0>>,
                                  "fill").mask
    IN  {p \in Pixels(new_img.shape) : mask[p] = 255}

\* C18: when there is foreground, auto_crop returns its bounding box
\* widened by borders // 2 on each side: H + 2 * (borders // 2) rows and
\* W + 2 * (borders // 2) columns for a box of H rows and W columns, the
\* pixels of the box copied unchanged; with borders = 0, the box itself
\* (the 20x30 block of the test image; 30x40 with borders = 10).
C18_CropIsWidenedBoundingBox ==
    (ret.op = "auto_crop" /\ CropForeground # {})
    => LET rows == {p[1] : p \in CropForeground}
           columns == {p[2] : p \in CropForeground}
           half == ret.args[3] \div 2
           new_img == bordered(ret.args[2], ret.args[3])
           H == SetMax(rows) - SetMin(rows) + 1
           W == SetMax(columns) - SetMin(columns) + 1
       IN  /\ ret.value.raised = None
           /\ ret.value.value.shape = <<H + 2 * half, W + 2 * half>>
           /\ \A r \in SetMin(rows)..SetMax(rows) :
                 \A c \in SetMin(columns)..SetMax(columns) :
                    ret.value.value.px[<<r - SetMin(rows) + half,
                                         c - SetMin(columns) + half>>]
                    = new_img.px[<<r, c>>]
           /\ ret.args[3] = 0
              => /\ ret.value.value.shape = <<H, W>>
                 /\ \A p \in Pixels(<<H, W>>) :
                       ret.value.value.px[p]
                       = ret.args[2].px[<<SetMin(rows) + p[1],
                                          SetMin(columns) + p[2]>>]
           /\ ret.args[2] = TestImage
              => /\ ret.args[3] = 0
                    => /\ ret.value.value.shape = <<20, 30>>
                       /\ \A p \in Pixels(<<20, 30>>) :
                             ret.value.value.px[p] = Dark
                 /\ ret.args[3] = 10 => ret.value.value.shape = <<30, 40>>

C18_Witness ==
    /\ ret.op = "auto_crop"
    /\ ret.args[3] = 2
    /\ ret.args[2].shape = <<2, 3>>
    /\ ret.args[2].px[<<0, 0>>] = White
    /\ ret.args[2].px[<<1, 1>>] = Dark
    /\ ret.args[2].px[<<1, 2>>] = Dark
    /\ Cardinality(CropForeground) = 2
    /\ ret.value.value.shape = <<3, 4>>
    /\ ret.value.value.px[<<1, 1>>] = Dark

\* Every pixel of the image has the colour of the first.
Uniform(img) ==
    \A p \in Pixels(img.shape) : img.px[p] = img.px[<<0, 0>>]

\* C19: on an image of one colour auto_crop raises, whatever the border,
\* returns no image, and leaves its argument as it was.
C19_UniformImageFails ==
    [][(ret'.op = "auto_crop" /\ Uniform(ret.args[2]))
       => /\ ret'.value.raised = "ValueError"
          /\ "value" \notin DOMAIN ret'.value
          /\ ret'.args = ret.args]_vars

C19_Witness ==
    /\ ret.op = "auto_crop"
    /\ Uniform(ret.args[2])
    /\ ret.args[2].shape = <<2, 3>>
    /\ ret.args[3] = MaxBorder
    /\ ret.value.raised = "ValueError"

\* C20: pad_image_to_center raises exactly when the target has fewer rows
\* or fewer columns than the image; otherwise it returns an array of the
\* target's shape and the image's channels, the image copied from row
\* (H - h) // 2 and column (W - w) // 2 on, every other pixel black.
C20_PadCentresOrRejects ==
    ret.op = "pad_image_to_center"
    => LET img == ret.args[2]
           H == ret.args[3][1]
           W == ret.args[3][2]
           row == (H - img.shape[1]) \div 2
           column == (W - img.shape[2]) \div 2
       IN  /\ ret.value.raised # None
              <=> (H < img.shape[1] \/ W < img.shape[2])
           /\ ret.value.raised = None
              => /\ ret.value.value.shape = <<H, W>>
                 /\ \A p \in Pixels(<<H, W>>) :
                       /\ Len(ret.value.value.px[p]) = Len(img.px[<<0, 0>>])
                       /\ ret.value.value.px[p]
                          = IF /\ p[1] - row \in 0..(img.shape[1] - 1)
                               /\ p[2] - column \in 0..(img.shape[2] - 1)
                            THEN img.px[<<p[1] - row, p[2] - column>>]
                            ELSE <<0, 0, 0>>

(***************************************************************************)
(* Claims about failures, frames and the session                           *)
(***************************************************************************)

\* The kind of the failure of the estimator on too few points
\* (analysis.py:50-53).
InsufficientPointsKind == calculate_affine_transform(<<>>, <<>>).raised

\* The kind of the failure of pad_image_to_center on a target smaller than
\* the image (image.py:262-263).
TooSmallKind(img) == pad_image_to_center(img, <<0, 0>>).raised

\* C21: the failures of the core can be told apart by their kind alone: a
\* failed auto_crop (no foreground) is of another kind than the
\* estimator's failure on too few points and than pad_image_to_center's
\* failure on a too-small target, and a failed pad_image_to_center is of
\* another kind than the estimator's failure.
C21_DistinctErrorKinds ==
    /\ (ret.op = "auto_crop" /\ ret.value.raised # None)
       => /\ ret.value.raised # InsufficientPointsKind
          /\ ret.value.raised # TooSmallKind(ret.args[2])
    /\ (ret.op = "pad_image_to_center" /\ ret.value.raised # None)
       => ret.value.raised # InsufficientPointsKind

\* C22: a stored result is never mutated.  Only run_calibration changes
\* calibration_results, and then to the fresh result of one estimation on
\* the current pairs; save_results (and the overlay it renders) leaves the
\* stored result as it was, the matrix in the JSON document it writes being
\* the list of the stored matrix, which itself stays an array.
C22_ResultNeverMutated ==
    [][/\ ret'.op # "run_calibration"
          => calibration_results' = calibration_results
       /\ ret'.op = "run_calibration"
          => \/ calibration_results' = calibration_results
             \/ calibration_results'
                  = calculate_affine_transform(get_landmark_pairs[2],
                                               get_landmark_pairs[1]).result
       /\ (/\ ret'.op = "save_results"
           /\ "calibration_results.json" \in ret'.value.files)
          => /\ ret'.value.json.calibration_results.affine_matrix
                  = tolist(calibration_results.affine_matrix)
             /\ calibration_results'.affine_matrix
                  = calibration_results.affine_matrix
             /\ Len(calibration_results'.affine_matrix) = 3]_vars

\* A result has been saved with its overlay.
C22_Witness ==
    /\ ret.op = "save_results"
    /\ "calibration_results_overlay.png" \in ret.value.files
    /\ calibration_results # EmptyDict
    /\ Len(calibration_results.affine_matrix) = 3

\* The handlers that render the overlay: run_calibration after a
\* successful estimation, save_results when a result is stored.
Rendering ==
    \/ ret'.op = "run_calibration" /\ ret'.estimator # <<>>
    \/ ret'.op = "save_results" /\ calibration_results # EmptyDict

\* C23: rendering the overlay leaves the model as it is: the processed
\* image, both landmark lists, the undo log and scaled_csv_data keep their
\* values, and the stored result is the one that was stored when the
\* overlay was asked for (in run_calibration the result of the estimation
\* just made).
C23_OverlayLeavesModel ==
    [][Rendering
       => /\ image' = image
          /\ landmarks_image' = landmarks_image
          /\ landmarks_csv' = landmarks_csv
          /\ action_history' = action_history
          /\ scaled_csv_data' = scaled_csv_data
          /\ calibration_results'
               = IF ret'.op = "save_results"
                 THEN calibration_results
                 ELSE calculate_affine_transform(ret'.estimator[1][1],
                                                 ret'.estimator[1][2]).result]_vars

\* The overlay has been rendered over a loaded image and shown.
C23_Witness ==
    /\ ret.op = "run_calibration"
    /\ ret.shown = <<Dialog("window", "Calibration Results")>>
    /\ image # None
    /\ scaled_csv_data # None

\* The number of entries of the undo log naming one set.
RECURSIVE Count(_, _)
Count(log, set_id) ==
    IF log = <<>>
    THEN 0
    ELSE Count(Front(log), set_id) + (IF Last(log) = set_id THEN 1 ELSE 0)

\* The log holds as many "image" entries as landmarks_image has landmarks,
\* as many "csv" entries as landmarks_csv has, and nothing else.
Mirrors ==
    /\ Count(action_history, "image") = Len(landmarks_image)
    /\ Count(action_history, "csv") = Len(landmarks_csv)
    /\ Len(action_history) = Len(landmarks_image) + Len(landmarks_csv)

\* C25: in every state reachable through the methods of the registry the
\* undo log mirrors the landmark lists (one "image" entry per image
\* landmark, one "csv" entry per CSV landmark, nothing else), and so an undo
\* with a non-empty log removes exactly one landmark and one entry.
C25_LogMirrorsLists ==
    /\ []Mirrors
    /\ [][(ret'.op = "undo_last_landmark" /\ action_history # <<>>)
          => /\ Len(landmarks_image') + Len(landmarks_csv')
                  = Len(landmarks_image) + Len(landmarks_csv) - 1
             /\ Len(action_history') = Len(action_history) - 1]_vars

\* An undo has just removed a landmark while both sets and the log were
\* interleaved.
C25_Witness ==
    /\ ret.op = "undo_last_landmark"
    /\ landmarks_image # <<>>
    /\ landmarks_csv # <<>>
    /\ Len(action_history) >= 3
    /\ action_history[1] # action_history[2]

\* C26: in every state of the application the Calibrate button is enabled
\* exactly when the model holds at least 3 complete landmark pairs.
C26_ButtonMatchesPairs ==
    calibrate_button = "normal"
    <=> Min(Len(landmarks_image), Len(landmarks_csv)) >= MinPairs

\* C27: a load_image or load_csv that fails (it ends with an error dialog)
\* leaves the model as it was: the paths, the processed image,
\* scaled_csv_data, both landmark lists and the undo log.
C27_FailedLoadLeavesModel ==
    [][(/\ ret'.op \in {"load_image", "load_csv"}
        /\ ret'.shown = <<Dialog("error", "Error")>>)
       => /\ image_path' = image_path
          /\ csv_path' = csv_path
          /\ image' = image
          /\ scaled_csv_data' = scaled_csv_data
          /\ landmarks_image' = landmarks_image
          /\ landmarks_csv' = landmarks_csv
          /\ action_history' = action_history]_vars

\* The accepted click on the CSV canvas that ret reports was made exactly
\* at the centre of the marker of a data point, the crop shown starting at
\* origin.
ClickedOnMarker(origin, point) ==
    /\ ret.op = "_add_landmark"
    /\ ret.args[2] = "csv"
    /\ ret.value = TRUE
    /\ ret.args[1] = marker_event(origin, point)

C29_FillWithinValue ==
    (Removed_background /\ ret.args[5] = "fill")
    => LET by_value == remove_background(ret.args[2], ret.args[3],
                                         ret.args[4], "value").mask
       IN  \A p \in Background : by_value[p] = 0

\* The set an accepted add, reported by ret, has added to.
AddedTo ==
    IF ret.op = "add_image_landmark" /\ ret.value = TRUE THEN "image"
    ELSE IF ret.op = "add_csv_landmark" /\ ret.value = TRUE THEN "csv"
    ELSE None

\* C30: an accepted add to either set immediately followed by
\* undo_last_landmark restores both landmark lists and the undo log: the
\* undo leaves the lists and the log from which that add had led to the
\* state before the undo (the added point and its log entry are gone,
\* everything else is kept), and so the result of get_landmark_pairs is
\* the one of the lists before the add.
C30_AddThenUndoRestores ==
    [][(AddedTo # None /\ ret'.op = "undo_last_landmark")
       => /\ action_history = Append(action_history', AddedTo)
          /\ IF AddedTo = "image"
             THEN /\ landmarks_image
                       = Append(landmarks_image', ret.args[1])
                  /\ landmarks_csv' = landmarks_csv
             ELSE /\ landmarks_csv = Append(landmarks_csv', ret.args[1])
                  /\ landmarks_image' = landmarks_image
          /\ insertions' = Front(insertions)
          /\ landmarks_image' = PointsOf(insertions', "image")
          /\ landmarks_csv' = PointsOf(insertions', "csv")
          /\ get_landmark_pairs'
               = LET image_before == PointsOf(Front(insertions), "image")
                     csv_before == PointsOf(Front(insertions), "csv")
                     n == Min(Len(image_before), Len(csv_before))
                 IN  <<SubSeq(image_before, 1, n),
                       SubSeq(csv_before, 1, n)>>]_vars

\* An undo has returned to lists of different lengths, the CSV list the
\* longer one.
C30_Witness ==
    /\ ret.op = "undo_last_landmark"
    /\ ret.value = None
    /\ landmarks_image # <<>>
    /\ Len(landmarks_csv) > Len(landmarks_image)
    /\ Len(insertions) = Len(action_history)

====
